---- MODULE Spec2Model ----
(***************************************************************************)
(* Sitemap generator of AdobeDocs/adp-sitemap-generator.                   *)
(*                                                                         *)
(* Two script variants are modelled:                                       *)
(*   "batch"  : src/unnamed/part_000 (scan, then filter200Urls, then       *)
(*              upload to sitemap.xml)                                     *)
(*   "inline" : src/index.js (HEAD probe inside the storage scan, upload   *)
(*              to test-sitemap.xml)                                       *)
(* Strings are TLA+ strings; the JavaScript string methods the scripts use *)
(* (startsWith, endsWith, slice, replace, split) are operators over them.  *)
(***************************************************************************)
EXTENDS Integers, Sequences, FiniteSets, TLC

(***************************************************************************)
(* Bounds of the model.                                                    *)
(***************************************************************************)
\* longest parsed urlset.url array
MaxUpstream == 2
\* longest storage listing
MaxListing == 2
\* longest configured target prefix (characters)
MaxTargetLen == 5
\* the longest digit string put into one place of a route
MaxDigits == 9

(***************************************************************************)
(* JavaScript string methods.                                              *)
(***************************************************************************)
Min(a, b) == IF a < b THEN a ELSE b

Range(f) == {f[i] : i \in DOMAIN f}

\* s.startsWith(p)
StartsWith(s, p) == Len(p) <= Len(s) /\ SubSeq(s, 1, Len(p)) = p

\* s.endsWith(p)
EndsWith(s, p) == Len(p) <= Len(s) /\ SubSeq(s, Len(s) - Len(p) + 1, Len(s)) = p

\* s.slice(k) for k >= 0 (0-based start)
SliceFrom(s, k) == SubSeq(s, k + 1, Len(s))

\* s.slice(0, -n)
SliceDropLast(s, n) == SubSeq(s, 1, Len(s) - n)

\* 1-based positions at which sub occurs in s
Occurrences(s, sub) ==
    {i \in 1..(Len(s) - Len(sub) + 1) : SubSeq(s, i, i + Len(sub) - 1) = sub}

\* s.indexOf(sub), 1-based; 0 when sub does not occur
IndexOf(s, sub) ==
    IF Occurrences(s, sub) = {} THEN 0
    ELSE CHOOSE i \in Occurrences(s, sub) : \A j \in Occurrences(s, sub) : i <= j

\* s.replace(pat, by) with a string pattern: the first occurrence only
ReplaceFirst(s, pat, by) ==
    LET i == IndexOf(s, pat) IN
    IF i = 0 THEN s
    ELSE SubSeq(s, 1, i - 1) \o by \o SubSeq(s, i + Len(pat), Len(s))

\* s.split(sep) for a one-character separator
RECURSIVE Split(_, _)
Split(s, sep) ==
    LET i == IndexOf(s, sep) IN
    IF i = 0 THEN <<s>>
    ELSE <<SubSeq(s, 1, i - 1)>> \o Split(SubSeq(s, i + 1, Len(s)), sep)

Digits == {"0", "1", "2", "3", "4", "5", "6", "7", "8", "9"}

\* /\d{n,}/.test(s): some n consecutive characters of s are digits
HasDigitRun(s, n) ==
    \E i \in 1..(Len(s) - n + 1) :
        \A j \in i..(i + n - 1) : SubSeq(s, j, j) \in Digits

\* s.replace(/^\/+|\/+$/g, ''): every leading and every trailing slash removed
RECURSIVE StripLeadingSlashes(_)
StripLeadingSlashes(s) ==
    IF StartsWith(s, "/") THEN StripLeadingSlashes(SliceFrom(s, 1)) ELSE s

RECURSIVE StripTrailingSlashes(_)
StripTrailingSlashes(s) ==
    IF EndsWith(s, "/") THEN StripTrailingSlashes(SliceDropLast(s, 1)) ELSE s

StripSlashes(s) == StripTrailingSlashes(StripLeadingSlashes(s))

(***************************************************************************)
(* Static configuration of the two scripts.                                *)
(***************************************************************************)
Variants == {"batch", "inline"}

\* the fixed upstream sitemap host that fetchEDSSitemap replaces
EdgePrefix == "https://main--adp-devsite--adobedocs.aem.page/"

\* EXCLUDED_PATTERNS: a regular expression /^p/ is [kind |-> "prefix"],
\* /s$/ is [kind |-> "suffix"]; /\/config\/?$/ is the two suffixes it accepts
EXCLUDED_PATTERNS(v) ==
    IF v = "batch"
    THEN << [kind |-> "prefix", s |-> "/test/"],
            [kind |-> "prefix", s |-> "/franklin_assets/"],
            [kind |-> "prefix", s |-> "/tools/"],
            [kind |-> "suffix", s |-> "/nav"],
            [kind |-> "prefix", s |-> "/github-actions-test/"],
            [kind |-> "prefix", s |-> "/github-actions-test-two/"],
            [kind |-> "suffix", s |-> "/config"],
            [kind |-> "suffix", s |-> "/config/"],
            [kind |-> "prefix", s |-> "/dev-docs-reference/"] >>
    ELSE << [kind |-> "prefix", s |-> "/test/"],
            [kind |-> "prefix", s |-> "/franklin_assets/"],
            [kind |-> "prefix", s |-> "/tools/"],
            [kind |-> "suffix", s |-> "/nav"],
            [kind |-> "prefix", s |-> "/github-actions-test/"],
            [kind |-> "suffix", s |-> "/config"],
            [kind |-> "suffix", s |-> "/config/"] >>

\* pattern.test(pathname)
PatternTest(pattern, pathname) ==
    IF pattern.kind = "prefix" THEN StartsWith(pathname, pattern.s)
    ELSE EndsWith(pathname, pattern.s)

EXCLUDED_PRIVATE_SITES(v) ==
    << "adls-beta", "avatar-tts-beta", "custom-model-apis",
       "express-add-ons-beta-docs", "express-api", "firefly-beta",
       "photoshop-api-beta", "reframev2", "s3dapi", "secured", "taas-api",
       "ttv-api", "ucm-api", "video-reframe-api-beta", "video-rendering" >>
    \o (IF v = "batch" THEN << "test-private" >> ELSE << >>)

\* siteUrl: selected by deploy-env in part_000, fixed in index.js
SiteUrl(v, env) ==
    IF v = "batch" /\ env = "dev" THEN "https://developer-stage.adobe.com/"
    ELSE "https://developer.adobe.com/"

\* the file name generateAndUploadSitemap appends
SitemapFileName(v) == IF v = "batch" THEN "sitemap.xml" ELSE "test-sitemap.xml"

\* statuses filter200Urls / collectBlobPageData drop: [404, 301, 302].includes
DroppedStatuses == {404, 301, 302}

(***************************************************************************)
(* new URL(url): the URLs of the model parse when they carry an http(s)    *)
(* scheme and a host; anything else makes the constructor throw TypeError. *)
(***************************************************************************)
UrlSchemes == {"https://", "http://"}

UrlParses(u) == \E sch \in UrlSchemes : StartsWith(u, sch) /\ Len(u) > Len(sch)

\* the text before the first "?" or "#"
BeforeQuery(s) ==
    LET q == IndexOf(s, "?")
        h == IndexOf(s, "#")
        cut == IF q = 0 THEN h ELSE IF h = 0 THEN q ELSE Min(q, h)
    IN IF cut = 0 THEN s ELSE SubSeq(s, 1, cut - 1)

\* new URL(u).pathname, for u with UrlParses(u)
Pathname(u) ==
    LET sch == CHOOSE x \in UrlSchemes : StartsWith(u, x)
        rest == BeforeQuery(SliceFrom(u, Len(sch)))
        i == IndexOf(rest, "/")
    IN IF i = 0 THEN "/" ELSE SliceFrom(rest, i - 1)

\* shouldIncludeUrl(url), for url with UrlParses(url)
shouldIncludeUrl(v, url) ==
    ~ \E k \in 1..Len(EXCLUDED_PATTERNS(v)) :
          PatternTest(EXCLUDED_PATTERNS(v)[k], Pathname(url))

(***************************************************************************)
(* fetchEDSSitemap: the value it returns or the error it rethrows.         *)
(*                                                                         *)
(* A response is [ok, kind, url]: ok is response.ok; kind says what        *)
(* parser.parse left in result.urlset.url: "absent" (no urlset, or an      *)
(* empty one), "object" (a document with one <url> element parses to a     *)
(* single object, not an array) or "array"; url holds the entries.         *)
(***************************************************************************)
NoSlot == << "none", 0 >>

\* the entries of an array, each tagged with its position (slot is a ghost
\* field: it names the record in the properties, the scripts never read it)
Tagged(entries, src) ==
    [i \in 1..Len(entries) |->
        [loc |-> entries[i].loc, lastmod |-> entries[i].lastmod, slot |-> << src, i >>]]

\* result.urlset.url.filter(url => shouldIncludeUrl(url.loc))
FilteredUrls(v, entries) ==
    SelectSeq(Tagged(entries, "eds"), LAMBDA e : shouldIncludeUrl(v, e.loc))

\* a variant that leaves loc as the upstream sitemap gave it
UpdatedUrlsNoRewrite(v, env, entries) == FilteredUrls(v, entries)

\* filteredUrls.map(url => ({...url, loc: url.loc.replace(EdgePrefix, siteUrl)}))
UpdatedUrls(v, env, entries) ==
    LET f == FilteredUrls(v, entries) IN
    [i \in 1..Len(f) |->
        [loc |-> ReplaceFirst(f[i].loc, EdgePrefix, SiteUrl(v, env)),
         lastmod |-> f[i].lastmod, slot |-> f[i].slot]]

\* a variant that drops the entries whose URL does not parse
FetchResultSkippingMalformed(v, env, resp) ==
    IF ~resp.ok THEN [err |-> "FetchError", urls |-> << >>]
    ELSE IF resp.kind = "absent" THEN [err |-> "NoUrlsFound", urls |-> << >>]
    ELSE IF resp.kind = "object" THEN [err |-> "FilterNotAFunction", urls |-> << >>]
    ELSE LET f == SelectSeq(Tagged(resp.url, "eds"),
                            LAMBDA e : UrlParses(e.loc) /\ shouldIncludeUrl(v, e.loc))
         IN [err |-> "none",
             urls |-> [i \in 1..Len(f) |->
                         [loc |-> ReplaceFirst(f[i].loc, EdgePrefix, SiteUrl(v, env)),
                          lastmod |-> f[i].lastmod, slot |-> f[i].slot]]]

\* a variant that falls back to an empty sitemap when the fetch fails
FetchResultFallback(v, env, resp) ==
    IF ~resp.ok \/ resp.kind # "array" THEN [err |-> "none", urls |-> << >>]
    ELSE IF \E i \in 1..Len(resp.url) : ~UrlParses(resp.url[i].loc)
         THEN [err |-> "InvalidURL", urls |-> << >>]
    ELSE [err |-> "none", urls |-> UpdatedUrls(v, env, resp.url)]

FetchResult(v, env, resp) ==
    IF ~resp.ok THEN [err |-> "FetchError", urls |-> << >>]
    ELSE IF resp.kind = "absent" THEN [err |-> "NoUrlsFound", urls |-> << >>]
    ELSE IF resp.kind = "object" THEN [err |-> "FilterNotAFunction", urls |-> << >>]
    ELSE IF \E i \in 1..Len(resp.url) : ~UrlParses(resp.url[i].loc)
         THEN [err |-> "InvalidURL", urls |-> << >>]
    ELSE [err |-> "none", urls |-> UpdatedUrls(v, env, resp.url)]

(***************************************************************************)
(* collectBlobPageData: the filters and the record of one listed blob.     *)
(***************************************************************************)
\* /\d{9,}/
DigitRunMin == 9

BlobRoute(name) == SliceDropLast(name, Len("index.html"))

\* a variant that tests the route as a whole, its "/" taken out
hasLongDigitSequenceAcrossSegments(route) ==
    LET segments == Split(route, "/")
        glued[k \in 0..Len(segments)] ==
            IF k = 0 THEN "" ELSE glued[k - 1] \o segments[k]
    IN HasDigitRun(glued[Len(segments)], DigitRunMin)

hasLongDigitSequence(route) ==
    LET segments == Split(route, "/") IN
    \E k \in 1..Len(segments) : HasDigitRun(segments[k], DigitRunMin)

\* a variant that matches the name as a bare prefix, without the "/"
IsExcludedSiteBarePrefix(v, route) ==
    \E k \in 1..Len(EXCLUDED_PRIVATE_SITES(v)) :
        StartsWith(route, EXCLUDED_PRIVATE_SITES(v)[k])

IsExcludedSite(v, route) ==
    \E k \in 1..Len(EXCLUDED_PRIVATE_SITES(v)) :
        StartsWith(route, EXCLUDED_PRIVATE_SITES(v)[k] \o "/")

\* the four `continue` guards, in the order of the loop body
BlobSkipped(v, name) ==
    \/ ~EndsWith(name, "index.html")
    \/ EndsWith(BlobRoute(name), "404/")
    \/ IsExcludedSite(v, BlobRoute(name))
    \/ hasLongDigitSequence(BlobRoute(name))

\* a variant that keeps the whole timestamp
BlobRecordFullTimestamp(v, env, blob, j) ==
    [loc |-> SiteUrl(v, env) \o BlobRoute(blob.name),
     lastmod |-> blob.lastModified,
     slot |-> << "blob", j >>]

\* {loc: `${siteUrl}${route}`, lastmod: rawDate.toISOString().split('T')[0]}
\* (lastModified is held as the text toISOString() returns)
BlobRecord(v, env, blob, j) ==
    [loc |-> SiteUrl(v, env) \o BlobRoute(blob.name),
     lastmod |-> Split(blob.lastModified, "T")[1],
     slot |-> << "blob", j >>]

(***************************************************************************)
(* generateAndUploadSitemap: the object path.                              *)
(***************************************************************************)
\* main: if (target.startsWith('/')) target = target.slice(1)
MainTarget(input) == IF StartsWith(input, "/") THEN SliceFrom(input, 1) ELSE input

\* a variant that strips one slash at each end
NormalizedTargetOnce(t) ==
    LET a == IF StartsWith(t, "/") THEN SliceFrom(t, 1) ELSE t
    IN IF EndsWith(a, "/") THEN SliceDropLast(a, 1) ELSE a

NormalizedTarget(t) == IF t = "/" THEN "" ELSE StripSlashes(t)

BlobName(v, t) ==
    IF NormalizedTarget(t) # ""
    THEN NormalizedTarget(t) \o "/" \o SitemapFileName(v)
    ELSE SitemapFileName(v)

\* ({ loc, lastmod }) => ({ loc, lastmod }): the fields that reach the XML
\* (the ghost slot stays, so that the properties can name the record)
Published(urls) ==
    [i \in 1..Len(urls) |->
        [loc |-> urls[i].loc, lastmod |-> urls[i].lastmod, slot |-> urls[i].slot]]

(***************************************************************************)
(* The inputs of a run.                                                    *)
(***************************************************************************)
DocsEntry == [loc |-> EdgePrefix \o "docs/a/", lastmod |-> "2024-01-01"]
TestEntry == [loc |-> EdgePrefix \o "test/foo", lastmod |-> "2024-01-02"]
SecuredEntry ==
    [loc |-> EdgePrefix \o "secured/x?p=/nav", lastmod |-> "2024-01-03T10:00:00Z"]
ReferenceEntry == [loc |-> EdgePrefix \o "dev-docs-reference/x", lastmod |-> "2024-01-04"]
ForeignEntry == [loc |-> "https://other.example/docs/b", lastmod |-> "2024-01-05"]
MalformedEntry == [loc |-> "not a url", lastmod |-> "2024-01-06"]

DocsBlob == [name |-> "docs/a/index.html", lastModified |-> "2023-05-05T10:00:00.000Z"]
SecuredBlob == [name |-> "secured/a/index.html", lastModified |-> "2023-05-06T10:00:00.000Z"]
SecuredDocsBlob ==
    [name |-> "secured-docs/index.html", lastModified |-> "2023-05-07T10:00:00.000Z"]
NotFoundBlob == [name |-> "docs/404/index.html", lastModified |-> "2023-05-08T10:00:00.000Z"]
StyleBlob == [name |-> "docs/style.css", lastModified |-> "2023-05-09T10:00:00.000Z"]
TestPrivateBlob ==
    [name |-> "test-private/index.html", lastModified |-> "2023-05-10T10:00:00.000Z"]

\* an object at the root whose name merely ends in "index.html"
SecuredIndexBlob ==
    [name |-> "securedindex.html", lastModified |-> "2023-05-11T10:00:00.000Z"]

SeqsUpTo(S, lo, hi) == UNION {[1..n -> S] : n \in lo..hi}

\* the answers of the upstream host over a set of entries; an array left by
\* the parser has at least two entries
Responses(entries) ==
    { [ok |-> FALSE, kind |-> "absent", url |-> << >>],
      [ok |-> TRUE, kind |-> "absent", url |-> << >>] }
    \cup { [ok |-> TRUE, kind |-> "object", url |-> << e >>] : e \in entries }
    \cup { [ok |-> TRUE, kind |-> "array", url |-> u] :
             u \in SeqsUpTo(entries, 2, MaxUpstream) }

Listings(blobs) == SeqsUpTo(blobs, 0, MaxListing)

\* a HEAD request answers with a status (err false) or throws (err true)
Ok200 == [err |-> FALSE, status |-> 200]

\* the outcomes the HEAD requests of one run are drawn from
Networks ==
    { {Ok200, [err |-> FALSE, status |-> 404], [err |-> TRUE, status |-> 0]},
      {Ok200, [err |-> FALSE, status |-> 301]},
      {Ok200, [err |-> FALSE, status |-> 302]},
      {Ok200, [err |-> FALSE, status |-> 500]} }

\* target prefixes: every string of "/" and "a" up to MaxTargetLen characters
RECURSIVE Join(_)
Join(cs) == IF cs = << >> THEN "" ELSE cs[1] \o Join(Tail(cs))

TargetStrings == {Join(cs) : cs \in SeqsUpTo({"/", "a"}, 0, MaxTargetLen)}

(***************************************************************************)
(* State.                                                                  *)
(***************************************************************************)
VARIABLES
    variant,        \* which script runs
    deploy_env,     \* getInput('deploy-env')
    targetInput,    \* getInput('target')
    response,       \* what the upstream sitemap answers
    listing,        \* what listBlobsFlat() enumerates
    network,        \* the outcomes a HEAD request can have in this run
    head,           \* HEAD outcomes seen by an earlier run on the same inputs
    pc,             \* where the process is
    mainPromise,    \* the promise main() returned
    target,         \* main's `target`
    edsUrls,        \* runSitemapWorkflow's edsUrls
    blobIdx,        \* blobs consumed by the for-await loop
    blobUrls,       \* collectBlobPageData's urls
    checkIdx,       \* records consumed by filter200Urls' loop
    healthyUrls,    \* filter200Urls' healthyUrls
    probes,         \* HEAD requests issued by this run, in order
    uploads,        \* uploadData calls that succeeded
    failure,        \* the error that rejected runSitemapWorkflow, or main
    log,            \* console output
    setFailedCalled,
    exitCode        \* "running", or the exit status of the process

vars == << variant, deploy_env, targetInput, response, listing, network, head, pc,
           mainPromise, target, edsUrls, blobIdx, blobUrls, checkIdx,
           healthyUrls, probes, uploads, failure, log, setFailedCalled, exitCode >>

inputs == << variant, deploy_env, targetInput, response, listing, network, head >>

\* a process at the start of main
Started ==
    /\ head = {}
    /\ pc = "main"
    /\ mainPromise = "pending"
    /\ target = targetInput
    /\ edsUrls = << >>
    /\ blobIdx = 0
    /\ blobUrls = << >>
    /\ checkIdx = 0
    /\ healthyUrls = << >>
    /\ probes = << >>
    /\ uploads = << >>
    /\ failure = "none"
    /\ log = << >>
    /\ setFailedCalled = FALSE
    /\ exitCode = "running"

\* index.js reads no deploy-env
EnvsOf(v, envs) == IF v = "batch" THEN envs ELSE {"prod"}

\* a string of n digits
DigitString(n) == SubSeq("12345678901234567890", 1, n)

\* index.html objects whose route holds two digit strings, in two segments
\* ("/"), in one run ("") or in one segment with a letter or a dash between
DigitBlobs ==
    { [name |-> "t/" \o DigitString(a) \o sep \o DigitString(b) \o "/index.html",
       lastModified |-> "2023-05-12T10:00:00.000Z"] :
        a \in 0..MaxDigits, b \in 0..MaxDigits, sep \in {"/", "", "x", "-"} }

NineDigitsBlob ==
    [name |-> "tmp/a123456789b/index.html", lastModified |-> "2023-05-13T10:00:00.000Z"]
EightDigitsBlob ==
    [name |-> "tmp/12345678/index.html", lastModified |-> "2023-05-14T10:00:00.000Z"]
SplitDigitsBlob ==
    [name |-> "12345/6789/index.html", lastModified |-> "2023-05-15T10:00:00.000Z"]

\* every HEAD outcome, in mixes of two or three; few kinds of entry
Init ==
    /\ variant \in Variants
    /\ deploy_env \in EnvsOf(variant, {"prod", "qa"})
    /\ targetInput = "/blog/"
    /\ response \in Responses({DocsEntry, TestEntry, MalformedEntry})
    /\ listing \in Listings({DocsBlob, SecuredBlob, StyleBlob})
    /\ network \in Networks
    /\ Started

\* every kind of entry; every HEAD request answers 200
InitProducers ==
    /\ variant \in Variants
    /\ deploy_env \in EnvsOf(variant, {"dev", "prod", "qa"})
    /\ targetInput = "/blog/"
    /\ response \in Responses({SecuredEntry, ForeignEntry})
    /\ listing \in Listings({SecuredBlob, SecuredDocsBlob, NotFoundBlob,
                              SecuredIndexBlob, TestPrivateBlob})
    /\ network = {Ok200}
    /\ Started

\* every target prefix; one upstream sitemap and one listing
InitTarget ==
    /\ variant \in Variants
    /\ deploy_env \in EnvsOf(variant, {"prod", "qa"})
    /\ targetInput \in TargetStrings
    /\ response = [ok |-> TRUE, kind |-> "array", url |-> << DocsEntry, TestEntry >>]
    /\ listing = << DocsBlob, StyleBlob >>
    /\ network = {Ok200}
    /\ Started

\* routes with digit strings; every HEAD request answers 200
InitDigits ==
    /\ variant \in Variants
    /\ deploy_env \in EnvsOf(variant, {"prod", "qa"})
    /\ targetInput = "/blog/"
    /\ response = [ok |-> TRUE, kind |-> "array", url |-> << DocsEntry, TestEntry >>]
    /\ listing \in { << b >> : b \in DigitBlobs }
                      \cup Listings({NineDigitsBlob, EightDigitsBlob, SplitDigitsBlob})
    /\ network = {Ok200}
    /\ Started

\* few inputs; a HEAD request answers 200, throws, or is never answered
InitPending ==
    /\ variant \in Variants
    /\ deploy_env \in EnvsOf(variant, {"prod", "qa"})
    /\ targetInput = "/blog/"
    /\ response \in Responses({DocsEntry, TestEntry})
    /\ listing \in Listings({DocsBlob, StyleBlob})
    /\ network = {Ok200, [err |-> TRUE, status |-> 0]}
    /\ Started

\* part_000 first, then index.js on the same inputs
InitPair ==
    /\ variant = "batch"
    /\ deploy_env \in {"prod", "qa"}
    /\ targetInput = "/blog/"
    /\ response \in Responses({DocsEntry, ReferenceEntry})
    /\ listing \in Listings({DocsBlob, TestPrivateBlob})
    /\ network \in { {Ok200, [err |-> FALSE, status |-> 404]},
                      {Ok200, [err |-> TRUE, status |-> 0]} }
    /\ Started

Logged(kind, slot) == [kind |-> kind, slot |-> slot]

(***************************************************************************)
(* main                                                                    *)
(***************************************************************************)
\* part_000 only: if (!["dev", "prod"].includes(deploy_env)) throw
MainConfigError ==
    /\ pc = "main"
    /\ variant = "batch"
    /\ deploy_env \notin {"dev", "prod"}
    /\ pc' = "mainRejected"
    /\ mainPromise' = "rejected"
    /\ failure' = "UnknownDeployEnv"
    /\ UNCHANGED << inputs, target, edsUrls, blobIdx, blobUrls, checkIdx,
                    healthyUrls, probes, uploads, log, setFailedCalled, exitCode >>

\* main runs to its end: it calls runSitemapWorkflow() and neither awaits nor
\* returns the promise, so main's own promise is fulfilled at once
MainStartsWorkflow ==
    /\ pc = "main"
    /\ variant = "batch" => deploy_env \in {"dev", "prod"}
    /\ target' = MainTarget(targetInput)
    /\ pc' = "fetchEDSSitemap"
    /\ mainPromise' = "fulfilled"
    /\ UNCHANGED << inputs, edsUrls, blobIdx, blobUrls, checkIdx, healthyUrls,
                    probes, uploads, failure, log, setFailedCalled, exitCode >>

\* main().catch(err => {console.error(err); console.error(err.stack);
\*                      setFailed(err); process.exit(-1)})
MainCatch ==
    /\ mainPromise = "rejected"
    /\ exitCode = "running"
    /\ log' = log \o << Logged("error", NoSlot), Logged("stack", NoSlot) >>
    /\ setFailedCalled' = TRUE
    /\ exitCode' = "255"
    /\ pc' = "exited"
    /\ UNCHANGED << inputs, mainPromise, target, edsUrls, blobIdx, blobUrls,
                    checkIdx, healthyUrls, probes, uploads, failure >>

(***************************************************************************)
(* runSitemapWorkflow                                                      *)
(***************************************************************************)
\* const edsUrls = await fetchEDSSitemap(): the catch block logs and rethrows
FetchEDSSitemap ==
    /\ pc = "fetchEDSSitemap"
    /\ LET r == FetchResult(variant, deploy_env, response) IN
       IF r.err = "none"
       THEN /\ edsUrls' = r.urls
            /\ pc' = "collectBlobPageData"
            /\ UNCHANGED << failure, log >>
       ELSE /\ log' = Append(log, Logged("Error fetching sitemap", NoSlot))
            /\ failure' = r.err
            /\ pc' = "workflowRejected"
            /\ UNCHANGED edsUrls
    /\ UNCHANGED << inputs, mainPromise, target, blobIdx, blobUrls, checkIdx,
                    healthyUrls, probes, uploads, setFailedCalled, exitCode >>

\* a variant whose catch block leaves the loop
AfterProbeAbort(out, i, n) == IF out.err THEN n ELSE i + 1

\* the loop index after an iteration that issued a HEAD request: the catch
\* block ends in `continue`, as the 404/301/302 branch does, so the loop
\* always moves to the next record (n is the number of records)
AfterProbe(out, i, n) == i + 1

\* the outcome of the HEAD request for a record: what an earlier run on the
\* same inputs saw for it, otherwise anything
HeadOutcomes(slot) ==
    IF \E m \in head : m.slot = slot
    THEN {m.out : m \in {x \in head : x.slot = slot}}
    ELSE network

\* one iteration of the for-await loop that ends in `continue` before any
\* request is made
CollectBlobSkip ==
    /\ pc = "collectBlobPageData"
    /\ blobIdx < Len(listing)
    /\ BlobSkipped(variant, listing[blobIdx + 1].name)
    /\ blobIdx' = blobIdx + 1
    /\ UNCHANGED << inputs, pc, mainPromise, target, edsUrls, blobUrls, checkIdx,
                    healthyUrls, probes, uploads, failure, log, setFailedCalled,
                    exitCode >>

\* part_000: one iteration that pushes the record
CollectBlobPush ==
    /\ pc = "collectBlobPageData"
    /\ variant = "batch"
    /\ blobIdx < Len(listing)
    /\ ~BlobSkipped(variant, listing[blobIdx + 1].name)
    /\ blobUrls' = Append(blobUrls,
                          BlobRecord(variant, deploy_env, listing[blobIdx + 1], blobIdx + 1))
    /\ blobIdx' = blobIdx + 1
    /\ UNCHANGED << inputs, pc, mainPromise, target, edsUrls, checkIdx, healthyUrls,
                    probes, uploads, failure, log, setFailedCalled, exitCode >>

\* index.js: one iteration that probes the URL inside try/catch and pushes the
\* record unless the status is 404, 301 or 302 or the request throws
CollectBlobProbe ==
    /\ pc = "collectBlobPageData"
    /\ variant = "inline"
    /\ blobIdx < Len(listing)
    /\ ~BlobSkipped(variant, listing[blobIdx + 1].name)
    /\ LET rec == BlobRecord(variant, deploy_env, listing[blobIdx + 1], blobIdx + 1) IN
       \E out \in HeadOutcomes(rec.slot) :
          /\ probes' = Append(probes, [slot |-> rec.slot, out |-> out])
          /\ IF out.err
             THEN /\ log' = Append(log, Logged("Error fetching", rec.slot))
                  /\ UNCHANGED blobUrls
             ELSE IF out.status \in DroppedStatuses
             THEN /\ log' = Append(log, Logged("status", rec.slot))
                  /\ UNCHANGED blobUrls
             ELSE /\ blobUrls' = Append(blobUrls, rec)
                  /\ UNCHANGED log
          /\ blobIdx' = AfterProbe(out, blobIdx, Len(listing))
    /\ UNCHANGED << inputs, pc, mainPromise, target, edsUrls, checkIdx, healthyUrls,
                    uploads, failure, setFailedCalled, exitCode >>

\* the listing is exhausted: collectBlobPageData returns urls
CollectBlobReturn ==
    /\ pc = "collectBlobPageData"
    /\ blobIdx = Len(listing)
    /\ pc' = IF variant = "batch" THEN "filter200Urls" ELSE "generateAndUploadSitemap"
    /\ UNCHANGED << inputs, mainPromise, target, edsUrls, blobIdx, blobUrls, checkIdx,
                    healthyUrls, probes, uploads, failure, log, setFailedCalled,
                    exitCode >>

\* a variant that concatenates the storage records first
allUrlsNoCheckReversed == blobUrls \o edsUrls

\* part_000: const allUrlsNoCheck = [...edsUrls, ...blobUrls]
allUrlsNoCheck == edsUrls \o blobUrls

\* part_000: one iteration of filter200Urls' loop
Filter200Step ==
    /\ pc = "filter200Urls"
    /\ checkIdx < Len(allUrlsNoCheck)
    /\ LET rec == allUrlsNoCheck[checkIdx + 1] IN
       \E out \in HeadOutcomes(rec.slot) :
          /\ probes' = Append(probes, [slot |-> rec.slot, out |-> out])
          /\ IF out.err
             THEN /\ log' = Append(log, Logged("Error fetching", rec.slot))
                  /\ UNCHANGED healthyUrls
             ELSE IF out.status \in DroppedStatuses
             THEN /\ log' = Append(log, Logged("status", rec.slot))
                  /\ UNCHANGED healthyUrls
             ELSE /\ healthyUrls' = Append(healthyUrls, Published(<< rec >>)[1])
                  /\ UNCHANGED log
          /\ checkIdx' = AfterProbe(out, checkIdx, Len(allUrlsNoCheck))
    /\ UNCHANGED << inputs, pc, mainPromise, target, edsUrls, blobIdx, blobUrls,
                    uploads, failure, setFailedCalled, exitCode >>

\* part_000: filter200Urls returns healthyUrls
Filter200Return ==
    /\ pc = "filter200Urls"
    /\ checkIdx = Len(allUrlsNoCheck)
    /\ pc' = "generateAndUploadSitemap"
    /\ UNCHANGED << inputs, mainPromise, target, edsUrls, blobIdx, blobUrls, checkIdx,
                    healthyUrls, probes, uploads, failure, log, setFailedCalled,
                    exitCode >>

\* a variant in which index.js spreads the storage records first
SitemapUrlsStorageFirst ==
    IF variant = "batch" THEN healthyUrls ELSE Published(blobUrls \o edsUrls)

\* the url array generateAndUploadSitemap serialises
SitemapUrls ==
    IF variant = "batch" THEN healthyUrls ELSE Published(edsUrls \o blobUrls)

\* generateAndUploadSitemap: one uploadData call, which succeeds or throws
GenerateAndUploadSitemap ==
    /\ pc = "generateAndUploadSitemap"
    /\ \E uploaded \in BOOLEAN :
          IF uploaded
          THEN /\ uploads' = Append(uploads, [variant |-> variant,
                                              blobName |-> BlobName(variant, target),
                                              urls |-> SitemapUrls])
               /\ log' = Append(log, Logged("Uploaded sitemap", NoSlot))
               /\ pc' = "workflowResolved"
               /\ UNCHANGED failure
          ELSE /\ failure' = "PublishError"
               /\ pc' = "workflowRejected"
               /\ UNCHANGED << uploads, log >>
    /\ UNCHANGED << inputs, mainPromise, target, edsUrls, blobIdx, blobUrls, checkIdx,
                    healthyUrls, probes, setFailedCalled, exitCode >>

(***************************************************************************)
(* The end of the process.                                                 *)
(***************************************************************************)
\* the workflow promise is fulfilled and nothing is left to run
ExitNormally ==
    /\ pc = "workflowResolved"
    /\ exitCode' = "0"
    /\ pc' = "exited"
    /\ UNCHANGED << inputs, mainPromise, target, edsUrls, blobIdx, blobUrls, checkIdx,
                    healthyUrls, probes, uploads, failure, log, setFailedCalled >>

\* the workflow promise is rejected and has no handler: the runtime reports
\* the unhandled rejection.  Node 15 and later end the process with status 1;
\* earlier versions (and --unhandled-rejections=warn) print a warning and the
\* process ends with status 0.
UnhandledRejection ==
    /\ pc = "workflowRejected"
    /\ \E code \in {"1", "0"} : exitCode' = code
    /\ log' = Append(log, Logged("unhandled rejection", NoSlot))
    /\ pc' = "exited"
    /\ UNCHANGED << inputs, mainPromise, target, edsUrls, blobIdx, blobUrls, checkIdx,
                    healthyUrls, probes, uploads, failure, setFailedCalled >>

Next ==
    \/ MainConfigError
    \/ MainStartsWorkflow
    \/ MainCatch
    \/ FetchEDSSitemap
    \/ CollectBlobSkip
    \/ CollectBlobPush
    \/ CollectBlobProbe
    \/ CollectBlobReturn
    \/ Filter200Step
    \/ Filter200Return
    \/ GenerateAndUploadSitemap
    \/ ExitNormally
    \/ UnhandledRejection

Spec == Init /\ [][Next]_vars

\* the producers over every kind of entry
SpecProducers == InitProducers /\ [][Next]_vars

\* the object path over every target prefix
SpecTarget == InitTarget /\ [][Next]_vars

SpecDigits == InitDigits /\ [][Next]_vars

\* once part_000 has exited, index.js is started on the same inputs: the same
\* upstream answer, listing and target, and for every record part_000 probed
\* the same HEAD outcome
Rerun ==
    /\ pc = "exited"
    /\ variant = "batch"
    /\ variant' = "inline"
    /\ head' = Range(probes)
    /\ pc' = "main"
    /\ mainPromise' = "pending"
    /\ target' = targetInput
    /\ edsUrls' = << >>
    /\ blobIdx' = 0
    /\ blobUrls' = << >>
    /\ checkIdx' = 0
    /\ healthyUrls' = << >>
    /\ probes' = << >>
    /\ failure' = "none"
    /\ log' = << >>
    /\ setFailedCalled' = FALSE
    /\ exitCode' = "running"
    /\ UNCHANGED << deploy_env, targetInput, response, listing, network, uploads >>

NextPair == Next \/ Rerun

SpecPair == InitPair /\ [][NextPair]_vars

(***************************************************************************)
(* A HEAD request that is never answered.  fetch is called with no timeout *)
(* and no abort signal, so the await is settled only by the host or by     *)
(* whatever the fetch implementation does on its own: node-fetch, which    *)
(* index.js requires, never gives up; the runtime's fetch, which part_000  *)
(* calls, may give up after its own default and reject, which is the       *)
(* outcome "throws" above.                                                 *)
(***************************************************************************)
\* the record whose HEAD request the script is about to make, if any
NextProbe ==
    IF variant = "batch"
    THEN IF pc = "filter200Urls" /\ checkIdx < Len(allUrlsNoCheck)
         THEN {allUrlsNoCheck[checkIdx + 1]} ELSE {}
    ELSE IF /\ pc = "collectBlobPageData"
            /\ blobIdx < Len(listing)
            /\ ~BlobSkipped(variant, listing[blobIdx + 1].name)
         THEN {BlobRecord(variant, deploy_env, listing[blobIdx + 1], blobIdx + 1)}
         ELSE {}

\* await fetch(loc, { method: 'HEAD', redirect: 'manual' }) stays pending
ProbePending ==
    /\ \E rec \in NextProbe :
          log' = Append(log, Logged("HEAD sent, no answer", rec.slot))
    /\ pc' = "awaitingProbe"
    /\ UNCHANGED << inputs, mainPromise, target, edsUrls, blobIdx, blobUrls, checkIdx,
                    healthyUrls, probes, uploads, failure, setFailedCalled, exitCode >>

NextPending == Next \/ ProbePending

\* the event loop runs every continuation that is ready
SpecPending == InitPending /\ [][NextPending]_vars /\ WF_vars(NextPending)

\* the same runs when every HEAD request is answered or throws
SpecSettling == InitPending /\ [][Next]_vars /\ WF_vars(Next)

(***************************************************************************)
(* Vocabulary of the properties.                                           *)
(***************************************************************************)
\* the uploads of the script that is running
MyUploads == SelectSeq(uploads, LAMBDA u : u.variant = variant)

\* the records that left the two producers
EdsSlots == {r.slot : r \in Range(edsUrls)}

ScannedBlobSlots ==
    {<< "blob", j >> : j \in {k \in 1..blobIdx : ~BlobSkipped(variant, listing[k].name)}}

CandidateSlots == EdsSlots \cup ScannedBlobSlots

\* the records the running script sends through its liveness filter
FilterSlots == IF variant = "batch" THEN CandidateSlots ELSE ScannedBlobSlots

ProbedSlots == {p.slot : p \in Range(probes)}

ProbesOf(slot) == {p.out : p \in {q \in Range(probes) : q.slot = slot}}

\* a HEAD request that answered, with a status other than 404, 301, 302
Live(out) == ~out.err /\ out.status \notin {404, 301, 302}

UploadSlots(u) == {r.slot : r \in Range(u.urls)}

\* the liveness stage is over: the script is at, or past, the upload
AtOrPastUpload ==
    \/ pc \in {"generateAndUploadSitemap", "workflowResolved"}
    \/ failure = "PublishError"
    \/ pc = "exited" /\ failure = "none"

\* the workflow was rejected by one of the errors C1 names
FatalErrors == {"FetchError", "NoUrlsFound", "PublishError"}

(***************************************************************************)
(* C1 (as claimed): whenever the upstream fetch is not successful, the     *)
(* parsed body lacks urlset.url or the upload fails, the rejection of      *)
(* runSitemapWorkflow reaches main().catch: the error and its stack are    *)
(* logged, setFailed is called and the process exits with status -1 (255). *)
(* The scripts call runSitemapWorkflow() without awaiting it, so this      *)
(* fails.                                                                  *)
(***************************************************************************)
C1_FatalReachesMainCatch ==
    (pc = "exited" /\ failure \in FatalErrors)
        => /\ setFailedCalled
           /\ exitCode = "255"
           /\ Logged("stack", NoSlot) \in Range(log)

(***************************************************************************)
(* C2 (as claimed): every candidate record, from the external sitemap or   *)
(* from the storage inventory, is probed; a published sitemap holds        *)
(* exactly the candidates whose probe answered with a status other than    *)
(* 404, 301, 302.  index.js publishes the external records unprobed, so    *)
(* this fails.                                                             *)
(***************************************************************************)
C2_EveryCandidateFiltered ==
    \A k \in 1..Len(MyUploads) :
        \A slot \in CandidateSlots :
            /\ slot \in ProbedSlots
            /\ slot \in UploadSlots(MyUploads[k]) <=> \A out \in ProbesOf(slot) : Live(out)

\* C2 restricted to part_000, where it holds
C2_BatchFiltersEveryCandidate == variant = "batch" => C2_EveryCandidateFiltered

\* C2 restricted to the storage records, where it holds in both scripts
C2_StorageRecordsFiltered ==
    \A k \in 1..Len(MyUploads) :
        \A slot \in ScannedBlobSlots :
            /\ slot \in ProbedSlots
            /\ slot \in UploadSlots(MyUploads[k]) <=> \A out \in ProbesOf(slot) : Live(out)

(***************************************************************************)
(* C3 (as claimed): when one upstream entry's URL does not parse, only     *)
(* that record is dropped; the run continues and the sitemap is still      *)
(* published (unless the upload itself fails).  The scripts rethrow the    *)
(* TypeError, so this fails.                                               *)
(***************************************************************************)
HasMalformed ==
    /\ response.ok
    /\ response.kind = "array"
    /\ \E i \in 1..Len(response.url) : ~UrlParses(response.url[i].loc)

\* fetchEDSSitemap has returned or thrown
PastFetch == mainPromise = "fulfilled" /\ pc # "fetchEDSSitemap"

C4_ProbeErrorIsolated ==
    /\ AtOrPastUpload => FilterSlots \subseteq ProbedSlots
    /\ (probes # << >> /\ pc \in {"workflowRejected", "exited"})
          => failure \in {"none", "PublishError"}
    /\ \A k \in 1..Len(MyUploads) :
          \A slot \in FilterSlots :
             /\ (\E out \in ProbesOf(slot) : out.err) => slot \notin UploadSlots(MyUploads[k])
             /\ (ProbesOf(slot) # {} /\ \A out \in ProbesOf(slot) : Live(out))
                   => slot \in UploadSlots(MyUploads[k])

\* a published sitemap holding a record that was probed after a request threw
C4_Witness ==
    \E k \in 1..Len(MyUploads) :
        \E i, j \in 1..Len(probes) :
            /\ i < j
            /\ probes[i].out.err
            /\ probes[i].slot \notin UploadSlots(MyUploads[k])
            /\ probes[j].slot \in UploadSlots(MyUploads[k])

(***************************************************************************)
(* C5: a run uploads at most once, and only after the external fetch       *)
(* succeeded, the listing is exhausted and every record of the liveness    *)
(* filter has been probed; a non-successful fetch or an absent urlset.url  *)
(* means no upload at all.                                                 *)
(***************************************************************************)
C5_SingleUploadAfterAll ==
    /\ Len(MyUploads) <= 1
    /\ MyUploads # << >>
          => /\ response.ok /\ response.kind = "array"
             /\ blobIdx = Len(listing)
             /\ FilterSlots \subseteq ProbedSlots
             /\ variant = "batch" => checkIdx = Len(edsUrls) + Len(blobUrls)
    /\ (~response.ok \/ response.kind = "absent") => MyUploads = << >>

\* an upload after a scan of a non-empty listing and at least two probes
C5_Witness ==
    /\ Len(MyUploads) = 1
    /\ Len(listing) >= 1
    /\ Len(probes) >= 2

(***************************************************************************)
(* C10: the published sequence is the surviving external records in        *)
(* upstream order followed by the surviving storage records in listing     *)
(* order, each as its producer made it; nothing is removed for sharing its *)
(* loc with another record.                                                *)
(***************************************************************************)
\* external before storage, and within a source by position
SlotBefore(a, b) ==
    \/ a[1] = "eds" /\ b[1] = "blob"
    \/ a[1] = b[1] /\ a[2] < b[2]

\* the candidates the running script's liveness filter let through
SurvivorSlots ==
    {slot \in CandidateSlots :
        slot \in FilterSlots => (ProbesOf(slot) # {} /\ \A out \in ProbesOf(slot) : Live(out))}

C10_MergeOrderNoDedup ==
    \A k \in 1..Len(MyUploads) :
        LET u == MyUploads[k].urls IN
        /\ \A i, j \in 1..Len(u) : i < j => SlotBefore(u[i].slot, u[j].slot)
        /\ UploadSlots(MyUploads[k]) = SurvivorSlots
        /\ \A i \in 1..Len(u) :
              \E c \in Range(edsUrls) \cup Range(blobUrls) :
                 c.slot = u[i].slot /\ c.loc = u[i].loc /\ c.lastmod = u[i].lastmod

\* a published sitemap in which the same loc comes from both sources
C10_Witness ==
    \E k \in 1..Len(MyUploads) :
        LET u == MyUploads[k].urls IN
        \E i, j \in 1..Len(u) :
            /\ i < j
            /\ u[i].loc = u[j].loc
            /\ u[i].slot[1] = "eds"
            /\ u[j].slot[1] = "blob"

(***************************************************************************)
(* C6 (as claimed): no published record, whichever source produced it,     *)
(* has a URL whose top-level path segment is a member of                   *)
(* EXCLUDED_PRIVATE_SITES.  The external records are never matched against *)
(* that list, so this fails.                                               *)
(***************************************************************************)
ExcludedSites == Range(EXCLUDED_PRIVATE_SITES(variant))

\* the first segment of a URL's path ("" for the path "/")
TopSegment(url) == Split(Pathname(url), "/")[2]

C6_NoExcludedSitePublished ==
    \A k \in 1..Len(MyUploads) :
        \A r \in Range(MyUploads[k].urls) :
            UrlParses(r.loc) => TopSegment(r.loc) \notin ExcludedSites

(***************************************************************************)
(* C6 (amended): no storage-inventory record of the published sitemap has  *)
(* a route (the object name without "index.html") that starts with         *)
(* "<site>/" for a member <site> of the running script's                   *)
(* EXCLUDED_PRIVATE_SITES, and the match is segment-exact: an index.html   *)
(* object that passes the other guards and whose route does not start with *)
(* such a directory (secured-docs/, or the root object securedindex.html)  *)
(* is a candidate, published when its probe answers 200.                   *)
(***************************************************************************)
\* the directory a route starts with ("" when the route has no "/")
RouteTopDir(route) ==
    IF IndexOf(route, "/") = 0 THEN "" ELSE SubSeq(route, 1, IndexOf(route, "/") - 1)

\* the guards of the scan other than the excluded-site guard
PassesOtherGuards(name) ==
    /\ EndsWith(name, "index.html")
    /\ ~EndsWith(BlobRoute(name), "404/")
    /\ ~hasLongDigitSequence(BlobRoute(name))

C6_NoExcludedStorageRoute ==
    \A k \in 1..Len(MyUploads) :
        \A j \in 1..Len(listing) :
            LET top == RouteTopDir(BlobRoute(listing[j].name)) IN
            /\ << "blob", j >> \in UploadSlots(MyUploads[k])
                  => (top = "" \/ top \notin ExcludedSites)
            /\ ( /\ PassesOtherGuards(listing[j].name)
                 /\ (top = "" \/ top \notin ExcludedSites)
                 /\ \A out \in ProbesOf(<< "blob", j >>) : Live(out) )
                  => << "blob", j >> \in UploadSlots(MyUploads[k])

\* a published sitemap with secured-docs/ in it and secured/a/ left out
C6_Witness ==
    \E k \in 1..Len(MyUploads) :
        \E i, j \in 1..Len(listing) :
            /\ listing[i] = SecuredBlob
            /\ listing[j] = SecuredDocsBlob
            /\ << "blob", i >> \notin UploadSlots(MyUploads[k])
            /\ << "blob", j >> \in UploadSlots(MyUploads[k])

(***************************************************************************)
(* C7 (as claimed): every record that leaves a producer and every          *)
(* published record has a loc under the site origin siteUrl.  An external  *)
(* entry on another host keeps its loc, so this fails.                     *)
(***************************************************************************)
\* the records that left a producer, and the published ones
RecordsOut ==
    Range(edsUrls) \cup Range(blobUrls)
        \cup UNION {Range(MyUploads[k].urls) : k \in 1..Len(MyUploads)}

C7_CanonicalOrigin ==
    \A r \in RecordsOut : StartsWith(r.loc, SiteUrl(variant, deploy_env))

(***************************************************************************)
(* C7 (amended): every storage record has loc = siteUrl + route, and every *)
(* external record whose upstream loc starts with the edge prefix has that *)
(* prefix replaced by siteUrl with the rest (path and query) verbatim; an  *)
(* external entry whose loc does not contain the edge prefix is passed     *)
(* through unchanged, under its own origin.                                *)
(***************************************************************************)
C7_CanonicalOriginForEdgeEntries ==
    \A r \in RecordsOut :
        IF r.slot[1] = "blob"
        THEN /\ StartsWith(r.loc, SiteUrl(variant, deploy_env))
             /\ SliceFrom(r.loc, Len(SiteUrl(variant, deploy_env))) \o "index.html"
                   = listing[r.slot[2]].name
        ELSE LET up == response.url[r.slot[2]].loc IN
             /\ StartsWith(up, EdgePrefix)
                   => /\ StartsWith(r.loc, SiteUrl(variant, deploy_env))
                      /\ SliceFrom(r.loc, Len(SiteUrl(variant, deploy_env)))
                            = SliceFrom(up, Len(EdgePrefix))
             /\ Occurrences(up, EdgePrefix) = {} => r.loc = up

\* a published sitemap with a rewritten external record that carries a
\* query, a storage record, and an external record of another host
C7_Witness ==
    \E k \in 1..Len(MyUploads) :
        /\ \E r \in Range(MyUploads[k].urls) :
              /\ r.slot[1] = "eds"
              /\ StartsWith(response.url[r.slot[2]].loc, EdgePrefix)
              /\ IndexOf(r.loc, "?") > 0
        /\ \E r \in Range(MyUploads[k].urls) : r.slot[1] = "blob"
        /\ \E r \in Range(MyUploads[k].urls) :
              r.slot[1] = "eds" /\ ~StartsWith(response.url[r.slot[2]].loc, EdgePrefix)

(***************************************************************************)
(* C9 (as claimed): the object path written is the target prefix with all  *)
(* leading and trailing slashes stripped, followed by "/sitemap.xml", and  *)
(* exactly "sitemap.xml" for a prefix of "/" or "".  index.js writes       *)
(* test-sitemap.xml, so this fails.                                        *)
(***************************************************************************)
NonSlashPositions(t) == {i \in 1..Len(t) : SubSeq(t, i, i) # "/"}

\* t between its first and its last character other than "/"
Core(t) ==
    IF NonSlashPositions(t) = {} THEN ""
    ELSE SubSeq(t,
                CHOOSE i \in NonSlashPositions(t) : \A j \in NonSlashPositions(t) : i <= j,
                CHOOSE i \in NonSlashPositions(t) : \A j \in NonSlashPositions(t) : i >= j)

ExpectedPath(t, file) == IF Core(t) = "" THEN file ELSE Core(t) \o "/" \o file

C9_WitnessRoot == MyUploads # << >> /\ targetInput = "/"

(***************************************************************************)
(* C8 (as claimed): on the same upstream sitemap, storage listing, target  *)
(* and probe outcomes, part_000 and index.js publish the same record       *)
(* sequence to the same object path.  They do not.                         *)
(***************************************************************************)
UploadsOf(v) == SelectSeq(uploads, LAMBDA u : u.variant = v)

\* the records as the XML carries them
LocsOf(urls) == [i \in 1..Len(urls) |-> << urls[i].loc, urls[i].lastmod >>]

BatchProbesOf(slot) == {m.out : m \in {x \in head : x.slot = slot}}

IsDateOnly(s) ==
    /\ Len(s) = 10
    /\ \A i \in 1..10 :
          IF i \in {5, 8} THEN SubSeq(s, i, i) = "-" ELSE SubSeq(s, i, i) \in Digits

\* the first ten characters of an ISO-8601 timestamp
DatePortion(ts) == SubSeq(ts, 1, 10)

C11_DateOnlyLastmod ==
    \A k \in 1..Len(MyUploads) :
        \A r \in Range(MyUploads[k].urls) :
            /\ IsDateOnly(r.lastmod)
            /\ r.slot[1] = "blob"
                  => r.lastmod = DatePortion(listing[r.slot[2]].lastModified)

(***************************************************************************)
(* C11 (amended): every storage record of the published sitemap has a      *)
(* date-only YYYY-MM-DD lastmod, the date portion of the object's          *)
(* last-modified ISO-8601 timestamp; every external record has the lastmod *)
(* of its upstream entry unchanged, date-only exactly when the upstream    *)
(* value is.                                                               *)
(***************************************************************************)
C11_LastmodBySource ==
    \A k \in 1..Len(MyUploads) :
        \A r \in Range(MyUploads[k].urls) :
            IF r.slot[1] = "blob"
            THEN /\ IsDateOnly(r.lastmod)
                 /\ r.lastmod = DatePortion(listing[r.slot[2]].lastModified)
            ELSE r.lastmod = response.url[r.slot[2]].lastmod

\* a published sitemap with a storage record, an external record whose
\* lastmod carries a time, and an external record whose lastmod is a date
C11_Witness ==
    \E k \in 1..Len(MyUploads) :
        /\ \E r \in Range(MyUploads[k].urls) : r.slot[1] = "blob"
        /\ \E r \in Range(MyUploads[k].urls) :
              r.slot[1] = "eds" /\ ~IsDateOnly(r.lastmod)
        /\ \E r \in Range(MyUploads[k].urls) :
              r.slot[1] = "eds" /\ IsDateOnly(r.lastmod)

(***************************************************************************)
(* C12: the scan excludes an index.html object, the other guards aside,    *)
(* if and only if some single "/"-separated segment of its route contains  *)
(* 9 or more consecutive digits; a run of exactly 8 digits is not          *)
(* excluded, and 9 digits split across two adjacent segments are not       *)
(* excluded.                                                               *)
(***************************************************************************)
IsDigitAt(s, i) == SubSeq(s, i, i) \in Digits

\* the length of the run of digits that ends at position i of s
RunEndingAt(s, i) ==
    LET run[k \in 0..i] ==
            IF k = 0 THEN 0
            ELSE IF IsDigitAt(s, k) THEN run[k - 1] + 1 ELSE 0
    IN run[i]

\* the longest run of consecutive digits of s; "/" is no digit, so a run
\* never reaches over two segments
LongestDigitRun(s) ==
    LET lens == {RunEndingAt(s, i) : i \in 0..Len(s)}
    IN CHOOSE m \in lens : \A n \in lens : n <= m

\* the storage records the scan has kept
KeptBlobSlots == {r.slot : r \in Range(blobUrls)}

\* the guards of the scan other than the digit guard
PassesGuardsBesideDigits(name) ==
    /\ EndsWith(name, "index.html")
    /\ ~EndsWith(BlobRoute(name), "404/")
    /\ ~IsExcludedSite(variant, BlobRoute(name))

UploadOrFatal ==
    \/ AtOrPastUpload
    \/ pc = "exited" /\ failure # "none"

C13_RunReachesUploadOrFatal == <>UploadOrFatal

\* the only places where a run stops: the end of the process, and a HEAD
\* request that is never answered
C13_StopsOnlyAtExitOrPendingProbe ==
    (~ENABLED NextPending) => pc \in {"exited", "awaitingProbe"}

\* a run that waits for a HEAD request, with the upload not reached
C13_PendingProbe == pc = "awaitingProbe" /\ ~UploadOrFatal /\ uploads = << >>

====
